---- MODULE Spec2Model ----
(***************************************************************************)
(* Queue state engine of src/server.js (LabQue2025).                       *)
(*                                                                         *)
(* The server is a single Node.js process.  Every Express handler in the   *)
(* file is synchronous (no await, no callback in the middle), so a request *)
(* runs to completion before the next one starts: one action is one whole  *)
(* handler, and concurrent requests are every order in which the event     *)
(* loop may pick them.  The only deferred work is the fs.unlink started by *)
(* POST /reset-queue, which is carried out by its own action.              *)
(*                                                                         *)
(* A ticket is the object { number, service, timestamp } of line 143; the  *)
(* timestamp is written there and read nowhere in the file, so a ticket is *)
(* the record [number, service].  A number `${prefix}${n}` is the pair     *)
(* <<prefix, n>>.  An optional value (null or a ticket) is a sequence of   *)
(* length 0 or 1.                                                          *)
(***************************************************************************)
EXTENDS Integers, Sequences, FiniteSets, TLC

\* ------------------------------------------------------------------ bounds
\* settings.maxQueueLength (100 in the source), scaled down so that a full
\* queue is reached.
maxQueueLength == 2
\* cap on the total of queueNumbers over the stations: POST /queue is not
\* taken beyond it.
MaxTickets == 3
\* cap on the number of fs.writeFileSync calls that throw.
MaxWriteFailures == 1
\* cap on fs.unlink operations in flight.
MaxUnlink == 1
\* cap on the number of times the process is started.
MaxBoots == 2

\* --------------------------------------------------------------- constants
averageServiceTime == 5

\* keys of `queues`, in the order `for (const service in queues)` visits them
StationOrder == <<"Charging", "Releasing", "Extraction">>

Stations == {StationOrder[i] : i \in 1..Len(StationOrder)}

\* req.body.service values tried by the requests: the stations and a name
\* that is no key of `queues`
Services == Stations \cup {"Lobby"}

\* req.body.announcement values tried by POST /announcement
Announcements == {"", "closing"}

Null == <<>>

Some(x) == <<x>>

VARIABLES
    queues,              \* service -> sequence of tickets
    currentServing,      \* service -> Null or Some(ticket)
    lastServed,          \* service -> Null or Some(ticket)
    queueNumbers,        \* service -> last sequence number minted
    servedHistory,       \* sequence of tickets
    totalServed,
    totalWaitTime,
    currentAnnouncement,
    disk,                \* DATA_FILE
    unlinkPending,       \* fs.unlink operations started and not yet done
    writeFailures,       \* fs.writeFileSync calls that threw so far
    res,                 \* response written by the step just taken
    sent,                \* messages given to notifyClients by the step just taken
    returned,            \* history: service -> numbers answered by POST /queue since the last reset
    accepted,            \* history: service -> tickets pushed by addToQueue since the last reset
    called,              \* history: service -> tickets returned by callNextNumber since the last reset
    lastPlaced,          \* history: service -> ticket most recently assigned to currentServing since the last reset
    persisted,           \* history: Null or Some(state left by the last handler that called saveState since the last reset)
    boots                \* number of times the process was started (loadState ran)

engine == <<queues, currentServing, lastServed, queueNumbers, servedHistory,
            totalServed, totalWaitTime, currentAnnouncement>>

history == <<returned, accepted, called, lastPlaced, persisted>>

vars == <<queues, currentServing, lastServed, queueNumbers, servedHistory,
          totalServed, totalWaitTime, currentAnnouncement, disk, unlinkPending,
          writeFailures, res, sent, returned, accepted, called, lastPlaced,
          persisted, boots>>

\* ----------------------------------------------------------------- helpers
EmptyQueues == [s \in Stations |-> <<>>]

NullSlots == [s \in Stations |-> Null]

ZeroNumbers == [s \in Stations |-> 0]

RECURSIVE SumSeq(_)
SumSeq(q) == IF q = <<>> THEN 0 ELSE Head(q) + SumSeq(Tail(q))

TotalMinted == SumSeq([i \in 1..Len(StationOrder) |-> queueNumbers[StationOrder[i]]])

\* the object serialised by saveState
state == [queues              |-> queues,
          currentServing      |-> currentServing,
          lastServed          |-> lastServed,
          queueNumbers        |-> queueNumbers,
          servedHistory       |-> servedHistory,
          totalServed         |-> totalServed,
          totalWaitTime       |-> totalWaitTime,
          currentAnnouncement |-> currentAnnouncement]

NoFile == [kind |-> "absent", data |-> <<>>]

\* outcomes of fs.writeFileSync: the file is replaced; the call throws before
\* the file is opened; the call throws after the file was truncated
WriteOutcomes == {"written", "failed", "truncated"}

writeFileSync(outcome, old, data) ==
    CASE outcome = "written"   -> [kind |-> "valid", data |-> <<data>>]
      [] outcome = "failed"    -> old
      [] outcome = "truncated" -> [kind |-> "truncated", data |-> <<>>]

\* saveState() called at the end of a handler: writes the state the handler
\* leaves behind
saveState(outcome) ==
    /\ outcome # "written" => writeFailures < MaxWriteFailures
    /\ disk' = writeFileSync(outcome, disk, state')
    /\ writeFailures' = IF outcome # "written" THEN writeFailures + 1 ELSE writeFailures
    /\ persisted' = Some(state')

NoResponse == [op |-> "none", service |-> "", status |-> 0, number |-> Null,
               rows |-> <<>>, queue |-> <<>>, announcement |-> ""]

Response(op, service, status) ==
    [NoResponse EXCEPT !.op = op, !.service = service, !.status = status]

\* express answers 500 when a handler throws
Thrown(op, service) == Response(op, service, 500)

charAt0 == [s \in Services |->
              CASE s = "Charging" -> "C" [] s = "Releasing" -> "R"
                [] s = "Extraction" -> "E" [] s = "Lobby" -> "L"]

toUpperCase(c) == c

\* the increment is not stored
incremented_lost(n) == n

\* ++queueNumbers[service]
incremented(n) == n + 1

\* generateQueueNumber: the number minted when the counter stands at n
generateQueueNumber(service, n) == <<toUpperCase(charAt0[service]), incremented(n)>>

\* capacity test off by one
hasRoom_offByOne(q) == Len(q) <= maxQueueLength

\* the capacity test of addToQueue
hasRoom(q) == Len(q) < maxQueueLength

\* unshift in place of push
push_unshift(q, user) == <<user>> \o q

push(q, user) == Append(q, user)

\* pop in place of shift
shifted_pop(q) == q[Len(q)]

\* the head is read and not removed
afterShift_peek(q) == q

\* Array.prototype.shift: the element removed and the array left
shifted(q) == Head(q)

\* the whole array is dropped with the head
afterShift_clears(q) == <<>>

afterShift(q) == Tail(q)

\* the slot is assigned only while it is empty
serve_onlyIfFree(slots, service, user) ==
    IF slots[service] = Null THEN [slots EXCEPT ![service] = Some(user)] ELSE slots

\* slot[service] = user, for the currentServing and lastServed slots
serve(slots, service, user) == [slots EXCEPT ![service] = Some(user)]

\* the station is left out of the message
nowServing_noStation(number, service) == <<"Now serving number", number>>

nowServing(number, service) == <<"Now serving number", number, "at", service>>

newAnnouncement(text) == <<"New Announcement:", text>>

\* ------------------------------------------------------------------- Init
Init ==
    /\ queues = EmptyQueues
    /\ currentServing = NullSlots
    /\ lastServed = NullSlots
    /\ queueNumbers = ZeroNumbers
    /\ servedHistory = <<>>
    /\ totalServed = 0
    /\ totalWaitTime = 0
    /\ currentAnnouncement = ""
    /\ disk = NoFile
    /\ unlinkPending = 0
    /\ writeFailures = 0
    /\ res = NoResponse
    /\ sent = <<>>
    /\ returned = EmptyQueues
    /\ accepted = EmptyQueues
    /\ called = EmptyQueues
    /\ lastPlaced = NullSlots
    /\ persisted = Null
    /\ boots = 1

\* ---------------------------------------------------------------- actions
\* GET /queue
statusOf(service) ==
    [current           |-> IF currentServing[service] # Null
                           THEN Some(currentServing[service][1].number)
                           ELSE Null,
     waiting           |-> [i \in 1..Len(queues[service]) |-> queues[service][i].number],
     estimatedWaitTime |-> Len(queues[service]) * averageServiceTime]

GetStatus ==
    /\ res' = [Response("GET /queue", "", 200) EXCEPT
                  !.queue = Some([s \in Stations |-> statusOf(s)])]
    /\ sent' = <<>>
    /\ UNCHANGED <<engine, disk, unlinkPending, boots, writeFailures, history>>

\* POST /queue with a service that is no key of queues
EnqueueInvalid(service) ==
    /\ service \notin Stations
    /\ res' = Response("POST /queue", service, 400)
    /\ sent' = <<>>
    /\ UNCHANGED <<engine, disk, unlinkPending, boots, writeFailures, history>>

\* POST /queue, queue not full: the ticket is pushed and the state saved
EnqueueAccepted(service, outcome) ==
    /\ service \in Stations
    /\ TotalMinted < MaxTickets
    /\ hasRoom(queues[service])
    /\ LET number == generateQueueNumber(service, queueNumbers[service])
           user == [number |-> number, service |-> service]
       IN /\ queueNumbers' = [queueNumbers EXCEPT ![service] = incremented(@)]
          /\ queues' = [queues EXCEPT ![service] = push(@, user)]
          /\ accepted' = [accepted EXCEPT ![service] = Append(@, user)]
          /\ UNCHANGED <<currentServing, lastServed, servedHistory, totalServed,
                         totalWaitTime, currentAnnouncement>>
          /\ saveState(outcome)
          /\ IF outcome = "written"
             THEN /\ res' = [Response("POST /queue", service, 200) EXCEPT
                                !.number = Some(number)]
                  /\ returned' = [returned EXCEPT ![service] = Append(@, number)]
             ELSE /\ res' = Thrown("POST /queue", service)
                  /\ UNCHANGED returned
    /\ sent' = <<>>
    /\ UNCHANGED <<unlinkPending, boots, called, lastPlaced>>

\* the full queue is reported to the caller and no number is minted
EnqueueFull_rejects(service) ==
    /\ service \in Stations
    /\ TotalMinted < MaxTickets
    /\ ~hasRoom(queues[service])
    /\ res' = Response("POST /queue", service, 400)
    /\ sent' = <<>>
    /\ UNCHANGED <<engine, disk, unlinkPending, boots, writeFailures, history>>

\* POST /queue, queue full: the number is minted and answered, nothing is pushed
EnqueueFull(service) ==
    /\ service \in Stations
    /\ TotalMinted < MaxTickets
    /\ ~hasRoom(queues[service])
    /\ LET number == generateQueueNumber(service, queueNumbers[service])
       IN /\ queueNumbers' = [queueNumbers EXCEPT ![service] = incremented(@)]
          /\ res' = [Response("POST /queue", service, 200) EXCEPT
                        !.number = Some(number)]
          /\ returned' = [returned EXCEPT ![service] = Append(@, number)]
    /\ sent' = <<>>
    /\ UNCHANGED <<queues, currentServing, lastServed, servedHistory, totalServed,
                   totalWaitTime, currentAnnouncement, disk, unlinkPending, boots,
                   writeFailures, accepted, called, lastPlaced, persisted>>

\* POST /call with a service that is no key of queues: queues[service] is
\* undefined and .shift() throws a TypeError
CallNextInvalid(service) ==
    /\ service \notin Stations
    /\ res' = Thrown("POST /call", service)
    /\ sent' = <<>>
    /\ UNCHANGED <<engine, disk, unlinkPending, boots, writeFailures, history>>

\* saveState() called although nothing was dequeued
CallNextEmpty_saves(service) ==
    /\ service \in Stations
    /\ queues[service] = <<>>
    /\ res' = Response("POST /call", service, 200)
    /\ sent' = <<>>
    /\ UNCHANGED <<engine, unlinkPending, boots, returned, accepted, called, lastPlaced>>
    /\ saveState("written")

\* POST /call on an empty queue: shift() gives undefined
CallNextEmpty(service) ==
    /\ service \in Stations
    /\ queues[service] = <<>>
    /\ res' = Response("POST /call", service, 200)
    /\ sent' = <<>>
    /\ UNCHANGED <<engine, disk, unlinkPending, boots, writeFailures, history>>

\* totalWaitTime is left out of the bookkeeping of a call
CallNext_countsOnly(service, outcome) ==
    /\ service \in Stations
    /\ queues[service] # <<>>
    /\ LET nextUser == shifted(queues[service])
       IN /\ queues' = [queues EXCEPT ![service] = afterShift(@)]
          /\ currentServing' = serve(currentServing, service, nextUser)
          /\ lastServed' = serve(lastServed, service, nextUser)
          /\ servedHistory' = push(servedHistory, nextUser)
          /\ totalServed' = totalServed + 1
          /\ sent' = <<nowServing(nextUser.number, service)>>
          /\ UNCHANGED <<queueNumbers, currentAnnouncement, totalWaitTime>>
          /\ saveState(outcome)
          /\ called' = [called EXCEPT ![service] = Append(@, nextUser)]
          /\ lastPlaced' = [lastPlaced EXCEPT ![service] = Some(nextUser)]
          /\ res' = IF outcome = "written"
                    THEN [Response("POST /call", service, 200) EXCEPT
                             !.number = Some(nextUser.number)]
                    ELSE Thrown("POST /call", service)
    /\ UNCHANGED <<unlinkPending, boots, returned, accepted>>

\* POST /call, callNextNumber with a ticket waiting
CallNext(service, outcome) ==
    /\ service \in Stations
    /\ queues[service] # <<>>
    /\ LET nextUser == shifted(queues[service])
       IN /\ queues' = [queues EXCEPT ![service] = afterShift(@)]
          /\ currentServing' = serve(currentServing, service, nextUser)
          /\ lastServed' = serve(lastServed, service, nextUser)
          /\ servedHistory' = push(servedHistory, nextUser)
          /\ totalServed' = totalServed + 1
          /\ totalWaitTime' = totalWaitTime + averageServiceTime
          /\ sent' = <<nowServing(nextUser.number, service)>>
          /\ UNCHANGED <<queueNumbers, currentAnnouncement>>
          /\ saveState(outcome)
          /\ called' = [called EXCEPT ![service] = Append(@, nextUser)]
          /\ lastPlaced' = [lastPlaced EXCEPT ![service] = Some(nextUser)]
          /\ res' = IF outcome = "written"
                    THEN [Response("POST /call", service, 200) EXCEPT
                             !.number = Some(nextUser.number)]
                    ELSE Thrown("POST /call", service)
    /\ UNCHANGED <<unlinkPending, boots, returned, accepted>>

\* POST /recall with nothing served at the service (or no such service)
RecallNothing(service) ==
    /\ IF service \in Stations THEN lastServed[service] = Null ELSE TRUE
    /\ res' = Response("POST /recall", service, 400)
    /\ sent' = <<>>
    /\ UNCHANGED <<engine, disk, unlinkPending, boots, writeFailures, history>>

\* the recalled ticket is put back at the head of the queue
Recall_requeue(service, outcome) ==
    /\ service \in Stations
    /\ lastServed[service] # Null
    /\ LET lastUser == lastServed[service][1]
       IN /\ currentServing' = serve(currentServing, service, lastUser)
          /\ queues' = [queues EXCEPT ![service] = <<lastUser>> \o @]
          /\ sent' = <<nowServing(lastUser.number, service)>>
          /\ UNCHANGED <<lastServed, queueNumbers, servedHistory,
                         totalServed, totalWaitTime, currentAnnouncement>>
          /\ saveState(outcome)
          /\ lastPlaced' = [lastPlaced EXCEPT ![service] = Some(lastUser)]
          /\ res' = IF outcome = "written"
                    THEN [Response("POST /recall", service, 200) EXCEPT
                             !.number = Some(lastUser.number)]
                    ELSE Thrown("POST /recall", service)
    /\ UNCHANGED <<unlinkPending, boots, returned, accepted, called>>

\* POST /recall
Recall(service, outcome) ==
    /\ service \in Stations
    /\ lastServed[service] # Null
    /\ LET lastUser == lastServed[service][1]
       IN /\ currentServing' = serve(currentServing, service, lastUser)
          /\ sent' = <<nowServing(lastUser.number, service)>>
          /\ UNCHANGED <<queues, lastServed, queueNumbers, servedHistory,
                         totalServed, totalWaitTime, currentAnnouncement>>
          /\ saveState(outcome)
          /\ lastPlaced' = [lastPlaced EXCEPT ![service] = Some(lastUser)]
          /\ res' = IF outcome = "written"
                    THEN [Response("POST /recall", service, 200) EXCEPT
                             !.number = Some(lastUser.number)]
                    ELSE Thrown("POST /recall", service)
    /\ UNCHANGED <<unlinkPending, boots, returned, accepted, called>>

\* POST /announcement
SetAnnouncement(announcement, outcome) ==
    /\ currentAnnouncement' = announcement
    /\ sent' = <<newAnnouncement(announcement)>>
    /\ UNCHANGED <<queues, currentServing, lastServed, queueNumbers,
                   servedHistory, totalServed, totalWaitTime>>
    /\ saveState(outcome)
    /\ res' = IF outcome = "written"
              THEN Response("POST /announcement", "", 200)
              ELSE Thrown("POST /announcement", "")
    /\ UNCHANGED <<unlinkPending, boots, returned, accepted, called, lastPlaced>>

\* GET /announcement
GetAnnouncement ==
    /\ res' = [Response("GET /announcement", "", 200) EXCEPT
                  !.announcement = currentAnnouncement]
    /\ sent' = <<>>
    /\ UNCHANGED <<engine, disk, unlinkPending, boots, writeFailures, history>>

\* the reset leaves lastServed as it was
ResetAll_keepsLastServed ==
    /\ unlinkPending < MaxUnlink
    /\ queues' = EmptyQueues
    /\ currentServing' = NullSlots
    /\ queueNumbers' = ZeroNumbers
    /\ servedHistory' = <<>>
    /\ totalServed' = 0
    /\ totalWaitTime' = 0
    /\ currentAnnouncement' = ""
    /\ unlinkPending' = unlinkPending + 1
    /\ res' = Response("POST /reset-queue", "", 200)
    /\ sent' = <<>>
    /\ returned' = EmptyQueues
    /\ accepted' = EmptyQueues
    /\ called' = EmptyQueues
    /\ lastPlaced' = NullSlots
    /\ persisted' = Null
    /\ UNCHANGED <<lastServed, disk, writeFailures, boots>>

\* POST /reset-queue: the engine is reset and fs.unlink(DATA_FILE) is started
ResetAll ==
    /\ unlinkPending < MaxUnlink
    /\ queues' = EmptyQueues
    /\ currentServing' = NullSlots
    /\ queueNumbers' = ZeroNumbers
    /\ lastServed' = NullSlots
    /\ servedHistory' = <<>>
    /\ totalServed' = 0
    /\ totalWaitTime' = 0
    /\ currentAnnouncement' = ""
    /\ unlinkPending' = unlinkPending + 1
    /\ res' = Response("POST /reset-queue", "", 200)
    /\ sent' = <<>>
    /\ returned' = EmptyQueues
    /\ accepted' = EmptyQueues
    /\ called' = EmptyQueues
    /\ lastPlaced' = NullSlots
    /\ persisted' = Null
    /\ UNCHANGED <<disk, writeFailures, boots>>

\* the fs.unlink started by a reset is carried out: the file is removed, or
\* the callback logs ENOENT when there is none
unlinked(file) == NoFile

UnlinkDone ==
    /\ unlinkPending > 0
    /\ unlinkPending' = unlinkPending - 1
    /\ disk' = unlinked(disk)
    /\ res' = NoResponse
    /\ sent' = <<>>
    /\ UNCHANGED <<engine, writeFailures, history, boots>>

\* GET /export: the rows given to the CSV parser
\* the rows of a queue in reverse
RECURSIVE rowsOf_reversed(_, _)
rowsOf_reversed(service, q) ==
    IF q = <<>> THEN <<>>
    ELSE rowsOf_reversed(service, Tail(q)) \o <<[service |-> service, number |-> Head(q).number]>>

RECURSIVE rowsOf(_, _)
rowsOf(service, q) ==
    IF q = <<>> THEN <<>>
    ELSE <<[service |-> service, number |-> Head(q).number]>> \o rowsOf(service, Tail(q))

RECURSIVE csvData(_)
csvData(order) ==
    IF order = <<>> THEN <<>>
    ELSE rowsOf(Head(order), queues[Head(order)]) \o csvData(Tail(order))

ExportEmpty ==
    /\ Len(csvData(StationOrder)) = 0
    /\ res' = Response("GET /export", "", 400)
    /\ sent' = <<>>
    /\ UNCHANGED <<engine, disk, unlinkPending, boots, writeFailures, history>>

Export ==
    /\ Len(csvData(StationOrder)) # 0
    /\ res' = [Response("GET /export", "", 200) EXCEPT !.rows = csvData(StationOrder)]
    /\ sent' = <<>>
    /\ UNCHANGED <<engine, disk, unlinkPending, boots, writeFailures, history>>

\* the module-level initial values of lines 15-42
fresh == [queues              |-> EmptyQueues,
          currentServing      |-> NullSlots,
          lastServed          |-> NullSlots,
          queueNumbers        |-> ZeroNumbers,
          servedHistory       |-> <<>>,
          totalServed         |-> 0,
          totalWaitTime       |-> 0,
          currentAnnouncement |-> ""]

\* data.f || other, for a field holding an object or an array (always truthy
\* when present), a number (0 is falsy) and a string ("" is falsy)

\* the field is never read from the file
objectOr_keepsCurrent(data, f, other) == other

objectOr(data, f, other) == IF f \in DOMAIN data THEN data[f] ELSE other

numberOr(data, f, other) ==
    IF f \in DOMAIN data THEN (IF data[f] = 0 THEN other ELSE data[f]) ELSE other

stringOr(data, f, other) ==
    IF f \in DOMAIN data THEN (IF data[f] = "" THEN other ELSE data[f]) ELSE other

\* loadState() run on the module-level initial values: the engine state
\* after startup with `file` on disk.  The values saveState writes (finite
\* integers, strings, arrays, plain objects, null) are read back unchanged
\* by JSON.parse.
loadState(file) ==
    IF file.kind = "absent" THEN fresh
    ELSE LET data == file.data[1]
         IN [queues              |-> objectOr(data, "queues", fresh.queues),
             currentServing      |-> objectOr(data, "currentServing", fresh.currentServing),
             lastServed          |-> objectOr(data, "lastServed", fresh.lastServed),
             queueNumbers        |-> objectOr(data, "queueNumbers", fresh.queueNumbers),
             servedHistory       |-> objectOr(data, "servedHistory", <<>>),
             totalServed         |-> numberOr(data, "totalServed", 0),
             totalWaitTime       |-> numberOr(data, "totalWaitTime", 0),
             currentAnnouncement |-> stringOr(data, "currentAnnouncement", "")]

\* the process is started (again): whatever it held in memory and whatever
\* unlink it had not carried out are gone, the module is evaluated and
\* loadState() runs before the first request.  On a truncated file
\* JSON.parse throws and the process exits, so no step follows.
Start ==
    /\ boots < MaxBoots
    /\ disk.kind # "truncated"
    /\ LET loaded == loadState(disk)
       IN /\ queues' = loaded.queues
          /\ currentServing' = loaded.currentServing
          /\ lastServed' = loaded.lastServed
          /\ queueNumbers' = loaded.queueNumbers
          /\ servedHistory' = loaded.servedHistory
          /\ totalServed' = loaded.totalServed
          /\ totalWaitTime' = loaded.totalWaitTime
          /\ currentAnnouncement' = loaded.currentAnnouncement
    /\ boots' = boots + 1
    /\ unlinkPending' = 0
    /\ res' = Response("startup", "", 0)
    /\ sent' = <<>>
    /\ UNCHANGED <<disk, writeFailures, history>>

\* one request handled, fs.writeFileSync ending in one of `outcomes`
Request(outcomes) ==
    \/ GetStatus
    \/ \E service \in Services : EnqueueInvalid(service)
    \/ \E service \in Services, outcome \in outcomes : EnqueueAccepted(service, outcome)
    \/ \E service \in Services : EnqueueFull(service)
    \/ \E service \in Services : CallNextInvalid(service)
    \/ \E service \in Services : CallNextEmpty(service)
    \/ \E service \in Services, outcome \in outcomes : CallNext(service, outcome)
    \/ \E service \in Services : RecallNothing(service)
    \/ \E service \in Services, outcome \in outcomes : Recall(service, outcome)
    \/ \E announcement \in Announcements, outcome \in outcomes :
          SetAnnouncement(announcement, outcome)
    \/ GetAnnouncement
    \/ ResetAll
    \/ ExportEmpty
    \/ Export

\* the server while every write of the data file succeeds
Next ==
    \/ Request({"written"})
    \/ UnlinkDone

Spec == Init /\ [][Next]_vars

\* the server with restarts of the process, every write succeeding
NextRestart ==
    \/ Request({"written"})
    \/ UnlinkDone
    \/ Start

SpecRestart == Init /\ [][NextRestart]_vars

\* engine states found in a data file written by an earlier run: one ticket
\* called and one waiting at Charging with an announcement set, and one
\* ticket waiting at Releasing with nothing called
OldStates ==
    LET C1 == [number |-> <<"C", 1>>, service |-> "Charging"]
        C2 == [number |-> <<"C", 2>>, service |-> "Charging"]
        R1 == [number |-> <<"R", 1>>, service |-> "Releasing"]
    IN {[queues              |-> [EmptyQueues EXCEPT !["Charging"] = <<C2>>],
         currentServing      |-> [NullSlots EXCEPT !["Charging"] = Some(C1)],
         lastServed          |-> [NullSlots EXCEPT !["Charging"] = Some(C1)],
         queueNumbers        |-> [ZeroNumbers EXCEPT !["Charging"] = 2],
         servedHistory       |-> <<C1>>,
         totalServed         |-> 1,
         totalWaitTime       |-> averageServiceTime,
         currentAnnouncement |-> "closing"],
        [fresh EXCEPT !.queues = [EmptyQueues EXCEPT !["Releasing"] = <<R1>>],
                      !.queueNumbers = [ZeroNumbers EXCEPT !["Releasing"] = 1]]}

\* the data files the process may find at startup: none, or an old state of
\* which any subset of the fields is missing
OldFiles ==
    {NoFile} \cup
    {[kind |-> "valid", data |-> <<[f \in present |-> old[f]]>>] :
        old \in OldStates, present \in SUBSET (DOMAIN fresh)}

\* the process about to be started on an old data file: the module-level
\* initial values, loadState() not yet run
InitLoad ==
    /\ queues = fresh.queues
    /\ currentServing = fresh.currentServing
    /\ lastServed = fresh.lastServed
    /\ queueNumbers = fresh.queueNumbers
    /\ servedHistory = fresh.servedHistory
    /\ totalServed = fresh.totalServed
    /\ totalWaitTime = fresh.totalWaitTime
    /\ currentAnnouncement = fresh.currentAnnouncement
    /\ disk \in OldFiles
    /\ unlinkPending = 0
    /\ writeFailures = 0
    /\ res = NoResponse
    /\ sent = <<>>
    /\ returned = EmptyQueues
    /\ accepted = EmptyQueues
    /\ called = EmptyQueues
    /\ lastPlaced = NullSlots
    /\ persisted = Null
    /\ boots = 0

\* one request that reads the engine or names a station, every write
\* succeeding
StationRequest ==
    \/ GetStatus
    \/ \E service \in Stations : EnqueueAccepted(service, "written")
    \/ \E service \in Stations : EnqueueFull(service)
    \/ \E service \in Stations : CallNextEmpty(service)
    \/ \E service \in Stations : CallNext(service, "written")
    \/ \E service \in Stations : RecallNothing(service)
    \/ \E service \in Stations : Recall(service, "written")
    \/ GetAnnouncement
    \/ ExportEmpty
    \/ Export

\* startup on the old file, then requests on the stations
NextLoad ==
    \/ boots = 0 /\ Start
    \/ boots > 0 /\ StationRequest

SpecLoad == InitLoad /\ [][NextLoad]_vars

\* the server while writes of the data file may throw
NextWriteFailures ==
    \/ Request(WriteOutcomes)
    \/ UnlinkDone

SpecWriteFailures == Init /\ [][NextWriteFailures]_vars

\* ------------------------------------------------------------------ claims
StationInitial == [s \in Stations |->
                     CASE s = "Charging" -> "C" [] s = "Releasing" -> "R"
                       [] s = "Extraction" -> "E"]

NoDuplicates(q) == \A i, j \in 1..Len(q) : q[i] = q[j] => i = j

IsPrefix(p, q) == Len(p) <= Len(q) /\ \A i \in 1..Len(p) : p[i] = q[i]

numbersOf(q) == [i \in 1..Len(q) |-> q[i].number]

StationRank(s) == CHOOSE i \in 1..Len(StationOrder) : StationOrder[i] = s

\* C1: a waiting list never holds more than maxQueueLength tickets, and
\* maxQueueLength + 1 enqueue requests on a station from which nothing was
\* called leave exactly maxQueueLength tickets waiting, whatever the order in
\* which the requests of all stations were handled.
C1_QueueNeverExceedsMax ==
    \A s \in Stations :
        /\ Len(queues[s]) <= maxQueueLength
        /\ (called[s] = <<>> /\ queueNumbers[s] = maxQueueLength + 1)
              => Len(queues[s]) = maxQueueLength

C1_Witness ==
    \E s \in Stations :
        /\ called[s] = <<>>
        /\ queueNumbers[s] = maxQueueLength + 1
        /\ Len(queues[s]) = maxQueueLength

\* C2: between resets, every number answered by POST /queue for a station is
\* the station's initial followed by an integer greater than that of every
\* number answered before for the station.
C2_NumbersStrictlyIncrease ==
    \A s \in Stations :
        \A i, j \in 1..Len(returned[s]) :
            /\ returned[s][i][1] = StationInitial[s]
            /\ i < j => returned[s][i][2] < returned[s][j][2]

C2_Witness ==
    \E s \in Stations :
        /\ Len(returned[s]) = 3
        /\ Len(accepted[s]) = 2

\* C3: between resets no ticket is returned by two callNextNumber calls, and
\* no ticket is twice in servedHistory.
C3_NoTicketCalledTwice ==
    /\ \A s \in Stations : NoDuplicates(called[s])
    /\ NoDuplicates(servedHistory)

C3_Witness ==
    \E s \in Stations : Len(called[s]) = 2 /\ Len(servedHistory) = 3

\* C4: between resets the tickets called at a station are, in order, the
\* first tickets accepted at the station.
C4_CalledInAcceptedOrder ==
    \A s \in Stations : IsPrefix(called[s], accepted[s])

C4_Witness ==
    \E s \in Stations : Len(called[s]) = 2 /\ Len(accepted[s]) = 3

\* C5: a POST /queue answered with number n on a station whose queue had
\* room leaves the waiting list reported by GET /queue equal to the one
\* reported before with n appended.
C5_EnqueueAppendsAtTail ==
    [][\A s \in Stations :
         (/\ res'.op = "POST /queue"
          /\ res'.service = s
          /\ res'.status = 200
          /\ Len(queues[s]) < maxQueueLength)
         => statusOf(s)'.waiting = Append(statusOf(s).waiting, res'.number[1])]_vars

C5_Witness ==
    /\ res.op = "POST /queue"
    /\ res.status = 200
    /\ Len(queues[res.service]) = 2
    /\ queues[res.service][2].number = res.number[1]

\* C6: POST /call on a station with nobody waiting answers current: null,
\* changes none of currentServing, lastServed, servedHistory, totalServed,
\* totalWaitTime, the queues and the data file, and notifies nobody.
C6_CallOnEmptyChangesNothing ==
    [][(/\ res'.op = "POST /call"
        /\ res'.service \in Stations
        /\ queues[res'.service] = <<>>)
       => /\ res'.status = 200
          /\ res'.number = Null
          /\ sent' = <<>>
          /\ UNCHANGED <<queues, currentServing, lastServed, servedHistory,
                         totalServed, totalWaitTime, disk>>]_vars

C6_Witness ==
    /\ res.op = "POST /call"
    /\ res.service \in Stations
    /\ res.status = 200
    /\ res.number = Null
    /\ servedHistory # <<>>
    /\ disk.kind = "valid"

\* C7: lastServed of a station is the ticket most recently assigned to its
\* currentServing by a call or a recall (null when there was none since the
\* last reset), and that ticket is still the one in currentServing.
C7_LastServedIsLastPlaced ==
    \A s \in Stations :
        /\ lastServed[s] = lastPlaced[s]
        /\ currentServing[s] = lastPlaced[s]

C7_Witness ==
    /\ res.op = "POST /recall"
    /\ res.status = 200
    /\ Len(called[res.service]) = 2
    /\ currentServing[res.service] = Some(called[res.service][2])
    /\ res.number = Some(called[res.service][2].number)

\* C8: POST /recall leaves queues, lastServed, queueNumbers, servedHistory
\* and totalServed as they were; answered with "Nothing to recall" it changes
\* nothing in the engine, leaves the data file alone and notifies nobody.
C8_RecallLeavesWaiting ==
    [][res'.op = "POST /recall"
       => /\ UNCHANGED <<queues, lastServed, queueNumbers, servedHistory, totalServed>>
          /\ res'.status = 400 => (UNCHANGED <<engine, disk>> /\ sent' = <<>>)]_vars

C8_Witness ==
    /\ res.op = "POST /recall"
    /\ res.status = 200
    /\ Len(queues[res.service]) = 2

\* C9: right after POST /reset-queue every station has no current and no
\* last served ticket, an empty queue and counter 0, GET /queue would report
\* {current: null, waiting: [], estimatedWaitTime: 0} for each, servedHistory
\* is empty, totalServed and totalWaitTime are 0 and the announcement is "".
C9_ResetGivesFreshState ==
    res.op = "POST /reset-queue"
    => /\ \A s \in Stations :
            /\ currentServing[s] = Null
            /\ lastServed[s] = Null
            /\ queues[s] = <<>>
            /\ queueNumbers[s] = 0
            /\ statusOf(s) = [current |-> Null, waiting |-> <<>>, estimatedWaitTime |-> 0]
       /\ servedHistory = <<>>
       /\ totalServed = 0
       /\ totalWaitTime = 0
       /\ currentAnnouncement = ""

C9_Witness ==
    /\ res.op = "POST /reset-queue"
    /\ disk.kind = "valid"
    /\ disk.data[1].servedHistory # <<>>
    /\ disk.data[1].currentAnnouncement # ""
    /\ \E s \in Stations : disk.data[1].queues[s] # <<>>

\* C10: GET /export answers "No data" exactly when every queue is empty;
\* otherwise its rows are one {service, number} per waiting ticket, the
\* stations in configured order and each station's tickets in queue order,
\* none for a ticket that is not waiting; it changes no state.
C10_ExportRowsAreWaitingTickets ==
    [][res'.op = "GET /export"
       => /\ res'.status = 400 <=> (\A s \in Stations : queues[s] = <<>>)
          /\ res'.status # 400 =>
               /\ res'.status = 200
               /\ \A s \in Stations :
                     LET ofS(row) == row.service = s
                     IN numbersOf(SelectSeq(res'.rows, ofS)) = numbersOf(queues[s])
               /\ \A i, j \in 1..Len(res'.rows) :
                     /\ res'.rows[i].service \in Stations
                     /\ i < j => StationRank(res'.rows[i].service)
                                    <= StationRank(res'.rows[j].service)
          /\ UNCHANGED <<engine, disk>>
          /\ sent' = <<>>]_vars

C10_Witness ==
    /\ res.op = "GET /export"
    /\ res.status = 200
    /\ Len(res.rows) = 2
    /\ res.rows[1].service = res.rows[2].service
    /\ servedHistory # <<>>

\* C11: POST /queue and POST /call with a service that is no station are
\* both answered with the error value (status 400), never by a thrown
\* exception, and change neither the engine nor the data file nor notify
\* anybody.
C11_UnknownStationIsRejected ==
    [][(/\ res'.op \in {"POST /queue", "POST /call"}
        /\ res'.service \notin Stations)
       => /\ res'.status = 400
          /\ sent' = <<>>
          /\ UNCHANGED <<engine, disk>>]_vars

\* C12: a handler whose write of the data file throws still answers as it
\* would have had the write succeeded: status 200, with the ticket number
\* for POST /queue, POST /call and POST /recall.
C12_WriteFailureNotPropagated ==
    [][writeFailures' > writeFailures
       => /\ res'.status = 200
          /\ res'.op \in {"POST /queue", "POST /call", "POST /recall"}
                => res'.number # Null]_vars

\* C13: whenever a handler that saves the state has returned since the last
\* reset and no unlink is in flight, the data file exists and holds the state
\* that handler left (nothing but such a handler writes the file, so it can
\* hold nothing newer).
C13_SnapshotCoversLastSave ==
    (unlinkPending = 0 /\ persisted # Null)
        => disk = [kind |-> "valid", data |-> persisted]

\* C14: a step notifies the clients of exactly one message when it is a call
\* that dequeued a ticket ("Now serving number <number> at <service>" for
\* that ticket), a recall that found a ticket (the same message for
\* lastServed) or a POST /announcement ("New Announcement: <text>"), and of
\* no message otherwise.  Each message is sent inside the step of its
\* handler, so the messages leave in the order of the handlers.
C14_OneBroadcastPerOperation ==
    [][sent' =
         IF res'.op = "POST /call" /\ res'.number # Null
         THEN <<<<"Now serving number", res'.number[1], "at", res'.service>>>>
         ELSE IF res'.op = "POST /recall" /\ res'.status = 200
         THEN <<<<"Now serving number", lastServed[res'.service][1].number,
                  "at", res'.service>>>>
         ELSE IF res'.op = "POST /announcement"
         THEN <<<<"New Announcement:", currentAnnouncement'>>>>
         ELSE <<>>]_vars

C14_Witness ==
    /\ res.op = "POST /recall"
    /\ res.status = 200
    /\ sent = <<<<"Now serving number", res.number[1], "at", res.service>>>>
    /\ queues[res.service] # <<>>

\* C15: POST /queue on a station whose queue is full adds one to the
\* station's counter and answers 200 with the number just minted; it leaves
\* the queues, currentServing, lastServed, servedHistory, the totals, the
\* other counters and the data file as they were and notifies nobody; and a
\* number answered without its ticket being pushed is never in the station's
\* queue nor in servedHistory.
C15_FullQueueBurnsNumber ==
    /\ [](\A s \in Stations : \A i \in 1..Len(returned[s]) :
            (\A k \in 1..Len(accepted[s]) : accepted[s][k].number # returned[s][i])
            => /\ \A k \in 1..Len(queues[s]) : queues[s][k].number # returned[s][i]
               /\ \A k \in 1..Len(servedHistory) :
                     servedHistory[k].number # returned[s][i])
    /\ [][\A s \in Stations :
            (/\ res'.op = "POST /queue"
             /\ res'.service = s
             /\ Len(queues[s]) >= maxQueueLength)
            => /\ queueNumbers' = [queueNumbers EXCEPT ![s] = queueNumbers[s] + 1]
               /\ res'.status = 200
               /\ res'.number = Some(<<StationInitial[s], queueNumbers[s] + 1>>)
               /\ sent' = <<>>
               /\ UNCHANGED <<queues, currentServing, lastServed, servedHistory,
                              totalServed, totalWaitTime, currentAnnouncement,
                              disk>>]_vars

C15_Witness ==
    /\ res.op = "POST /queue"
    /\ res.status = 200
    /\ Len(queues[res.service]) = maxQueueLength
    /\ \A k \in 1..Len(queues[res.service]) :
          queues[res.service][k].number # res.number[1]

\* C16: a call that dequeues a ticket appends that ticket to servedHistory,
\* adds one to totalServed and averageServiceTime to totalWaitTime; no other
\* step but a reset changes any of the three; hence totalServed is the
\* length of servedHistory and totalWaitTime is totalServed times
\* averageServiceTime.
C16_ServedBookkeeping ==
    /\ [](/\ totalServed = Len(servedHistory)
          /\ totalWaitTime = totalServed * averageServiceTime)
    /\ [][IF res'.op = "POST /call" /\ res'.number # Null
          THEN /\ servedHistory' = Append(servedHistory,
                      [number |-> res'.number[1], service |-> res'.service])
               /\ totalServed' = totalServed + 1
               /\ totalWaitTime' = totalWaitTime + averageServiceTime
          ELSE IF res'.op = "POST /reset-queue"
          THEN servedHistory' = <<>> /\ totalServed' = 0 /\ totalWaitTime' = 0
          ELSE UNCHANGED <<servedHistory, totalServed, totalWaitTime>>]_vars

C16_Witness ==
    /\ res.op = "POST /call"
    /\ res.number # Null
    /\ totalServed = 3
    /\ totalWaitTime = 15
    /\ servedHistory[3].number = res.number[1]

\* C17: a station's counter is lowered by nothing but a reset, a restart of
\* the process included, and is at every moment at least every number
\* answered for the station since the last reset.
C17_CounterNeverFallsBehind ==
    /\ [](\A s \in Stations : \A i \in 1..Len(returned[s]) :
            returned[s][i][2] <= queueNumbers[s])
    /\ [][res'.op # "POST /reset-queue"
          => \A s \in Stations : queueNumbers'[s] >= queueNumbers[s]]_vars

\* C18: the ticket in a station's currentServing is never in the station's
\* queue, and a step that puts into currentServing a ticket that is not in
\* servedHistory is a call that took the ticket from the head of the queue.
C18_ServingNotWaiting ==
    /\ [](\A s \in Stations :
            currentServing[s] # Null
            => \A k \in 1..Len(queues[s]) : queues[s][k] # currentServing[s][1])
    /\ [][\A s \in Stations :
            (/\ currentServing'[s] # currentServing[s]
             /\ currentServing'[s] # Null
             /\ \A k \in 1..Len(servedHistory) :
                   servedHistory[k] # currentServing'[s][1])
            => /\ res'.op = "POST /call"
               /\ res'.service = s
               /\ queues[s] # <<>>
               /\ currentServing'[s] = Some(Head(queues[s]))
               /\ queues'[s] = Tail(queues[s])]_vars

C18_Witness ==
    \E s \in Stations :
        /\ Len(called[s]) = 2
        /\ currentServing[s] = Some(called[s][2])
        /\ Len(queues[s]) = 1

\* C19: since the last reset, the tickets accepted at a station are exactly
\* the station's tickets of servedHistory followed by the station's queue,
\* each once: none is lost, none is twice.
C19_TicketConservation ==
    \A s \in Stations :
        LET ofS(t) == t.service = s
            served == SelectSeq(servedHistory, ofS)
        IN /\ served \o queues[s] = accepted[s]
           /\ NoDuplicates(accepted[s])
           /\ Len(accepted[s]) = Len(queues[s]) + Len(served)

C19_Witness ==
    \E s, t \in Stations :
        /\ s # t
        /\ Len(accepted[s]) = 2
        /\ Len(queues[s]) = 1
        /\ Len(accepted[t]) = 1
        /\ queues[t] = <<>>
        /\ res.op = "POST /recall"
        /\ res.status = 200

\* the shape the handlers rely on: a queue, a counter and two slots for
\* every station, tickets of the station's own initial
IsTicket(t) ==
    /\ DOMAIN t = {"number", "service"}
    /\ t.service \in Stations
    /\ t.number[1] = StationInitial[t.service]
    /\ t.number[2] \in Nat

IsSlot(slot) == slot = Null \/ (Len(slot) = 1 /\ IsTicket(slot[1]))

WellFormed ==
    /\ DOMAIN queues = Stations
    /\ DOMAIN currentServing = Stations
    /\ DOMAIN lastServed = Stations
    /\ DOMAIN queueNumbers = Stations
    /\ \A s \in Stations :
          /\ \A k \in 1..Len(queues[s]) : IsTicket(queues[s][k])
          /\ \A k \in 1..Len(servedHistory) : IsTicket(servedHistory[k])
          /\ IsSlot(currentServing[s])
          /\ IsSlot(lastServed[s])
          /\ queueNumbers[s] \in Nat
    /\ totalServed \in Nat
    /\ totalWaitTime \in Nat
    /\ currentAnnouncement \in Announcements

====
